---- MODULE Spec2Model ----
(***************************************************************************)
(* Hybrid retrieval and re-ranking pipeline of AdvancedRAG                 *)
(* (src/advanced_rag.py): the vector store's collections, _add_document,   *)
(* hybrid_search with its dense stage, _keyword_search,                    *)
(* _deduplicate_results and _rerank_results, and validate_document.        *)
(*                                                                         *)
(* Text is a sequence of whitespace-separated words; a score is a rational *)
(* [num, den] with den > 0.  The embedding model, the vector store, the    *)
(* cross-encoder and the generative service are the environment: their     *)
(* answers and their failures are chosen nondeterministically per call.    *)
(***************************************************************************)
EXTENDS Integers, Sequences, FiniteSets, TLC

(* ------------------------------ bounds --------------------------------- *)
\* documents held by the whole store
MaxDocs == 2
\* largest k a caller of hybrid_search passes
MaxK == 2
\* cosine distances the store reports are 0..MaxDist
MaxDist == 1
\* scores the pairwise model returns are 0..MaxModelScore
MaxModelScore == 1

(* --------------------------- program constants -------------------------- *)
\* self.hybrid_search(expanded_query, k=10)
ValidateK == 10

\* relevant_docs[:5]
ContextLimit == 5

\* collection_names, in the insertion order of the self.collections dict
CollectionNames ==
    << "adgm_regulations", "document_templates", "compliance_rules", "legal_precedents" >>

Collections == { CollectionNames[i] : i \in DOMAIN CollectionNames }

(* ------------------------------ universes ------------------------------ *)
\* what collection.get() / query() report for an entry stored without text
NoDocument == << "<None>" >>

\* documents _load_knowledge_base offers to _add_document
KnowledgeBase ==
    { [ id |-> "reg_001", content |-> << "ADGM", "shall" >> ],
      [ id |-> "tmpl_001", content |-> << "must" >> ],
      [ id |-> "reg_001", content |-> << "must" >> ] }

\* entries a collection can hold: the loaded ones, and one stored without text
Entry == KnowledgeBase \cup { [ id |-> "tmpl_001", content |-> NoDocument ] }

Contents == { e.content : e \in Entry }

Queries == { << "Shall" >>, << "adgm", "must" >> }

Distances == 0 .. MaxDist

ModelScores == 0 .. MaxModelScore

(* ------------------------------- scores -------------------------------- *)
Rat(n, d) == [ num |-> n, den |-> d ]

ScoreLess(a, b) == a.num * b.den < b.num * a.den

ScoreEq(a, b) == a.num * b.den = b.num * a.den

(* ------------------------------- Document ------------------------------ *)
\* origin and coll record which stage and collection built the object
Document(id, content, score, origin, coll) ==
    [ id |-> id, content |-> content, score |-> score, origin |-> origin, coll |-> coll ]

(* --------------------------- lexical scoring ---------------------------- *)
\* str.lower() on one word
Lower(w) ==
    CASE w = "ADGM" -> "adgm"
      [] w = "Shall" -> "shall"
      [] OTHER -> w

\* set(text.lower().split())
Terms(text) == { Lower(text[i]) : i \in DOMAIN text }

\* the quotient taken with integer division
Jaccard_FloorDiv(query_terms, doc_terms) ==
    LET intersection == query_terms \cap doc_terms
        union == query_terms \cup doc_terms
    IN  IF union # {} THEN Rat(Cardinality(intersection) \div Cardinality(union), 1)
        ELSE Rat(0, 1)

\* len(intersection) / len(union) if union else 0
Jaccard(query_terms, doc_terms) ==
    LET intersection == query_terms \cap doc_terms
        union == query_terms \cup doc_terms
    IN  IF union # {} THEN Rat(Cardinality(intersection), Cardinality(union))
        ELSE Rat(0, 1)

\* sorted(results, key=lambda x: x.score, reverse=True): stable, descending
RECURSIVE InsertByScore(_, _)
InsertByScore(sorted, doc) ==
    IF sorted = << >> THEN << doc >>
    ELSE IF ScoreLess(Head(sorted).score, doc.score)
         THEN << doc >> \o sorted
         ELSE << Head(sorted) >> \o InsertByScore(Tail(sorted), doc)

RECURSIVE SortedByScore(_)
SortedByScore(docs) ==
    IF docs = << >> THEN << >>
    ELSE InsertByScore(SortedByScore(SubSeq(docs, 1, Len(docs) - 1)), docs[Len(docs)])

\* seq[:n]
Take(seq, n) == SubSeq(seq, 1, IF n < Len(seq) THEN n ELSE Len(seq))


(* -------------------------------- state -------------------------------- *)
VARIABLES
    store,          \* collection name -> entries held, in the order get() lists them
    pc,             \* position of the running call: "idle" when none runs
    op,             \* public method that was called
    query,          \* hybrid_search's query argument
    k,              \* hybrid_search's k argument
    ci,             \* index in CollectionNames of the loop that is running
    results,        \* hybrid_search's local results
    keyword,        \* _keyword_search's local results, then its return value
    unique,         \* unique_results as handed to _rerank_results
    reranked,       \* reranked_results, the value _rerank_results returned
    ret,            \* value returned by hybrid_search
    caught,         \* the step just taken ended in its except branch
    dense_ok,       \* some collection answered the dense query in this call
    scan_raised,    \* some collection's full scan raised in this call
    model,          \* the pairwise model's part in this call
    validation,     \* validate_document's locals
    db,             \* names of the collections that exist in ./chroma_db
    handles,        \* keys of self.collections
    app,            \* the step of the caller that is looked at on its own
    boot            \* the process start that is running or has run

vars ==
    << store, pc, op, query, k, ci, results, keyword, unique, reranked, ret, caught,
       dense_ok, scan_raised, model, validation, db, handles, app, boot >>

\* what a retrieval or validation call leaves alone
outer == << db, handles, app, boot >>

locals ==
    << results, keyword, unique, reranked, ret, dense_ok, scan_raised, model, validation >>

NoScores == [ c \in Contents |-> 0 ]

(* --------------------------- verdicts and results ----------------------- *)
\* a dict with the keys `keys`; the other fields hold no value
Dict(keys, status, issues, recommendations, regulations, confidence) ==
    [ is_dict |-> TRUE, keys |-> keys, compliance_status |-> status, issues |-> issues,
      recommendations |-> recommendations, applicable_regulations |-> regulations,
      confidence |-> confidence ]

VerdictKeys ==
    { "reasoning_steps", "applicable_regulations", "compliance_status", "issues",
      "recommendations", "confidence" }

\* the dict of chain_of_thought_reasoning's except branch
FallbackVerdict ==
    Dict(VerdictKeys \ { "applicable_regulations" }, "review_required",
         << "Manual review needed" >>, << "Consult legal expert" >>, << >>, Rat(0, 1))

EmptyDict == Dict({}, "", << >>, << >>, << >>, Rat(0, 1))

\* a JSON value that is no object
NotADict == [ EmptyDict EXCEPT !.is_dict = FALSE ]

\* what ollama_client.generate(format="json") can answer to the reasoning prompt
Responses ==
    { [ kind |-> "error", value |-> EmptyDict ],
      [ kind |-> "not_json", value |-> EmptyDict ],
      [ kind |-> "json", value |-> EmptyDict ],
      [ kind |-> "json", value |-> NotADict ],
      [ kind |-> "json",
        value |-> Dict(VerdictKeys, "compliant", << >>, << >>, << "Companies Regulations" >>,
                       Rat(9, 10)) ],
      [ kind |-> "json",
        value |-> Dict(VerdictKeys, "partially compliant", << "Missing clause" >>, << >>,
                       << >>, Rat(3, 2)) ] }

\* no caller step is looked at
NoApp == [ op |-> "none" ]

\* no process start is looked at
NoBoot == [ starts |-> 0, created |-> {}, load |-> << >> ]

\* validate_document has not run
NoValidation ==
    [ document_type |-> "", base_query |-> << >>, expanded_query |-> << >>,
      expansion_raised |-> FALSE, context |-> << >>, response |-> "none",
      analysis |-> EmptyDict, result |-> EmptyDict ]

\* the pairwise model has not been called
NoModel == [ called |-> FALSE, failed |-> FALSE, query |-> << >>, scores |-> NoScores ]

(* ------------------------------ the store ------------------------------ *)
StoreSize(s) ==
    Len(s[CollectionNames[1]]) + Len(s[CollectionNames[2]])
        + Len(s[CollectionNames[3]]) + Len(s[CollectionNames[4]])

\* collection.add takes an id the collection holds already
HasId_Never(entries, id) == FALSE

HasId(entries, id) == \E i \in DOMAIN entries : entries[i].id = id

\* a collection holds an id once
UniqueIds(entries) ==
    \A i, j \in DOMAIN entries : entries[i].id = entries[j].id => i = j

EntrySeqs == UNION { [ 1 .. n -> Entry ] : n \in 0 .. MaxDocs }

\* what chromadb.PersistentClient(path="./chroma_db") can find on disk
PersistedStores ==
    { s \in [ Collections -> { e \in EntrySeqs : UniqueIds(e) } ] : StoreSize(s) <= MaxDocs }

Init ==
    /\ store \in PersistedStores
    /\ pc = "idle"
    /\ op = "none"
    /\ query = << >>
    /\ k = 0
    /\ ci = 0
    /\ results = << >>
    /\ keyword = << >>
    /\ unique = << >>
    /\ reranked = << >>
    /\ ret = << >>
    /\ caught = FALSE
    /\ dense_ok = FALSE
    /\ scan_raised = FALSE
    /\ model = NoModel
    /\ validation = NoValidation
    /\ db = Collections
    /\ handles = Collections
    /\ app = NoApp
    /\ boot = NoBoot

(* ----------------------------- _add_document --------------------------- *)
\* collections _load_knowledge_base fills
LoadedCollections == { CollectionNames[1], CollectionNames[2], CollectionNames[3] }

\* encode, then collection.add, which raises on an id the collection holds;
\* any exception is logged and swallowed
AddDocument(doc, collection_name) ==
    /\ pc = "idle"
    /\ StoreSize(store) < MaxDocs
    /\ \/ /\ ~HasId(store[collection_name], doc.id)
          /\ store' = [ store EXCEPT ![collection_name] = Append(@, doc) ]
          /\ caught' = FALSE
       \/ /\ store' = store
          /\ caught' = TRUE
    /\ UNCHANGED << pc, op, query, k, ci, locals >>
    /\ UNCHANGED outer

(* ------------------------------ dense stage ----------------------------- *)
\* indexes of entries by ascending distance
RECURSIVE InsertByDistance(_, _, _)
InsertByDistance(sorted, i, dist) ==
    IF sorted = << >> THEN << i >>
    ELSE IF dist[i] < dist[Head(sorted)]
         THEN << i >> \o sorted
         ELSE << Head(sorted) >> \o InsertByDistance(Tail(sorted), i, dist)

RECURSIVE Nearest(_, _)
Nearest(n, dist) ==
    IF n = 0 THEN << >> ELSE InsertByDistance(Nearest(n - 1, dist), n, dist)

\* collection.query(n_results=k) turned into Document objects, score = 1 - distance
DenseDocuments(collection_name, dist, n_results) ==
    LET entries == store[collection_name]
        hits == Take(Nearest(Len(entries), dist), n_results)
    IN  [ i \in 1 .. Len(hits) |->
            Document(entries[hits[i]].id, entries[hits[i]].content,
                     Rat(1 - dist[hits[i]], 1), "dense", collection_name) ]

(* ----------------------------- _keyword_search -------------------------- *)
\* the loop over all_docs['documents']; doc.lower() raises on a missing text and
\* the except branch keeps what the loop has appended so far
RECURSIVE ScanDocuments(_, _, _, _, _)
ScanDocuments(collection_name, all_docs, i, found, query_terms) ==
    IF i > Len(all_docs) THEN found
    ELSE IF all_docs[i].content = NoDocument THEN found
    ELSE LET score == Jaccard(query_terms, Terms(all_docs[i].content))
         IN  ScanDocuments(collection_name, all_docs, i + 1,
                 IF ScoreLess(Rat(0, 1), score)
                 THEN Append(found, Document(all_docs[i].id, all_docs[i].content,
                                             score, "lexical", collection_name))
                 ELSE found,
                 query_terms)

ScanRaises(all_docs) == \E i \in DOMAIN all_docs : all_docs[i].content = NoDocument

\* the first k documents found are returned as they stand
KeywordResults_Unsorted(found, n) == Take(found, n)

\* nothing is cut off
KeywordResults_All(found, n) == SortedByScore(found)

\* sorted(results, key=lambda x: x.score, reverse=True)[:k]
KeywordResults(found, n) == Take(SortedByScore(found), n)

(* --------------------------- _deduplicate_results ----------------------- *)
RECURSIVE Deduplicate(_, _, _)
Deduplicate(docs, seen, unique_docs) ==
    IF docs = << >> THEN unique_docs
    ELSE IF Head(docs).id \notin seen
         THEN Deduplicate(Tail(docs), seen \cup { Head(docs).id },
                          Append(unique_docs, Head(docs)))
         ELSE Deduplicate(Tail(docs), seen, unique_docs)

Reversed(seq) == [ i \in 1 .. Len(seq) |-> seq[Len(seq) + 1 - i] ]

\* nothing is removed
DeduplicateResults_None(docs) == docs

\* the last occurrence of an id is kept instead of the first
DeduplicateResults_Last(docs) == Reversed(Deduplicate(Reversed(docs), {}, << >>))

DeduplicateResults(docs) == Deduplicate(docs, {}, << >>)

(* ------------------------------ _rerank_results ------------------------- *)
\* the model's score is added to the retrieval score
Rescored_Fused(documents, scores) ==
    [ i \in 1 .. Len(documents) |->
        [ documents[i] EXCEPT !.score =
            Rat(@.num + scores[documents[i].content] * @.den, @.den) ] ]

\* doc.score = float(score) for every document
Rescored(documents, scores) ==
    [ i \in 1 .. Len(documents) |->
        [ documents[i] EXCEPT !.score = Rat(scores[documents[i].content], 1) ] ]

\* the scores are overwritten and the list is left in input order
RerankSuccess_Unsorted(documents, scores) == Rescored(documents, scores)

\* documents of equal score come out in the reverse of their input order
RerankSuccess_Reversed(documents, scores) ==
    SortedByScore(Reversed(Rescored(documents, scores)))

\* predict succeeded: overwrite the scores, sort descending
RerankSuccess(documents, scores) == SortedByScore(Rescored(documents, scores))

\* the fallback gives up the candidates
RerankFallback_Empty(documents) == << >>

\* the fallback sorts by the retrieval scores
RerankFallback_Sorted(documents) == SortedByScore(documents)

\* predict raised: the except branch returns documents
RerankFallback(documents) == documents

\* the model is asked whatever the list holds
ModelIsCalled_Always(documents) == TRUE

\* "if not documents: return documents" comes before cross_encoder.predict
ModelIsCalled(documents) == documents # << >>

ContentsOf(documents) == { documents[i].content : i \in DOMAIN documents }

\* the entries that were not ranked are deleted from their collections
StoreAfterRerank_Pruned(s, documents) ==
    [ c \in Collections |->
        SelectSeq(s[c], LAMBDA e : \E i \in DOMAIN documents : documents[i].id = e.id) ]

\* doc.score is assigned on the Document objects hybrid_search built; no
\* collection method that writes is called
StoreAfterRerank(s, documents) == s

\* a score for each content the model is asked about
ScoreTables(documents) ==
    { [ c \in Contents |-> IF c \in ContentsOf(documents) THEN f[c] ELSE 0 ] :
        f \in [ ContentsOf(documents) -> ModelScores ] }

(* ------------------------------ hybrid_search --------------------------- *)
Call(q, n) ==
    /\ pc = "idle"
    /\ pc' = "embed"
    /\ op' = "hybrid_search"
    /\ query' = q
    /\ k' = n
    /\ ci' = 0
    /\ results' = << >>
    /\ keyword' = << >>
    /\ unique' = << >>
    /\ reranked' = << >>
    /\ ret' = << >>
    /\ caught' = FALSE
    /\ dense_ok' = FALSE
    /\ scan_raised' = FALSE
    /\ model' = NoModel
    /\ validation' = NoValidation
    /\ UNCHANGED store
    /\ UNCHANGED outer

\* query_embedding = self.embedder.encode(query).tolist(), outside any try
EmbedQuery ==
    /\ pc = "embed"
    /\ \/ /\ pc' = "dense"
          /\ ci' = 1
       \/ /\ pc' = "raised"
          /\ ci' = 0
    /\ UNCHANGED << store, op, query, k, caught, locals >>
    /\ UNCHANGED outer

\* one round of the loop over self.collections.items() in the dense stage
DenseQuery ==
    /\ pc = "dense"
    /\ LET collection_name == CollectionNames[ci]
       IN  \/ /\ caught' = TRUE
              /\ UNCHANGED << results, dense_ok >>
           \/ \E dist \in [ 1 .. Len(store[collection_name]) -> Distances ] :
                /\ results' = results \o DenseDocuments(collection_name, dist, k)
                /\ dense_ok' = TRUE
                /\ caught' = FALSE
    /\ IF ci < Len(CollectionNames)
       THEN /\ ci' = ci + 1
            /\ pc' = "dense"
       ELSE /\ ci' = 1
            /\ pc' = "keyword"
    /\ UNCHANGED << store, op, query, k, keyword, unique, reranked, ret, scan_raised, model,
                    validation >>
    /\ UNCHANGED outer

\* one round of the loop over self.collections.items() in _keyword_search
KeywordScan ==
    /\ pc = "keyword"
    /\ LET collection_name == CollectionNames[ci]
       IN  \/ /\ caught' = TRUE
              /\ keyword' = keyword
           \/ /\ keyword' = ScanDocuments(collection_name, store[collection_name], 1,
                                          keyword, Terms(query))
              /\ caught' = ScanRaises(store[collection_name])
    /\ scan_raised' = (scan_raised \/ caught')
    /\ IF ci < Len(CollectionNames)
       THEN /\ ci' = ci + 1
            /\ pc' = "keyword"
       ELSE /\ ci' = 0
            /\ pc' = "merge"
    /\ UNCHANGED << store, op, query, k, results, unique, reranked, ret, dense_ok, model,
                    validation >>
    /\ UNCHANGED outer

\* _keyword_search's return, results.extend, _deduplicate_results,
\* _rerank_results and the final [:k]
MergeAndRerank ==
    /\ pc = "merge"
    /\ keyword' = KeywordResults(keyword, k)
    /\ results' = results \o keyword'
    /\ unique' = DeduplicateResults(results')
    /\ IF ~ModelIsCalled(unique')
       THEN /\ model' = NoModel
            /\ reranked' = unique'
            /\ caught' = FALSE
       ELSE \/ /\ model' = [ called |-> TRUE, failed |-> TRUE, query |-> query,
                             scores |-> NoScores ]
               /\ reranked' = RerankFallback(unique')
               /\ caught' = TRUE
            \/ \E scores \in ScoreTables(unique') :
                 /\ model' = [ called |-> TRUE, failed |-> FALSE, query |-> query,
                               scores |-> scores ]
                 /\ reranked' = RerankSuccess(unique', scores)
                 /\ caught' = FALSE
    /\ store' = StoreAfterRerank(store, reranked')
    /\ ret' = Take(reranked', k)
    /\ pc' = "returned"
    /\ UNCHANGED << op, query, k, ci, dense_ok, scan_raised, validation >>
    /\ UNCHANGED outer

\* the caller has the list, or the exception
Finish ==
    /\ \/ pc \in { "raised", "validated" }
       \/ pc = "returned" /\ op = "hybrid_search"
    /\ pc' = "idle"
    /\ op' = "none"
    /\ query' = << >>
    /\ k' = 0
    /\ ci' = 0
    /\ results' = << >>
    /\ keyword' = << >>
    /\ unique' = << >>
    /\ reranked' = << >>
    /\ ret' = << >>
    /\ caught' = FALSE
    /\ dense_ok' = FALSE
    /\ scan_raised' = FALSE
    /\ model' = NoModel
    /\ validation' = NoValidation
    /\ UNCHANGED store
    /\ UNCHANGED outer

(* ---------------------------- validate_document ------------------------ *)
DocumentTypes == { "memorandum" }

\* what the generative service can answer to the expansion prompt, stripped
ExpansionTerms == { << "must" >> }

\* f"ADGM requirements for {document_type}"
BaseQuery(document_type) == << "ADGM", "requirements", "for", document_type >>

\* query_expansion: f"{query} {expanded_terms}", or query when generate raises
ExpandedQuery(q, expanded_terms) == q \o expanded_terms

\* query_expansion's except branch: return query
ExpansionFallback_Empty(q) == << >>

ExpansionFallback(q) == q

\* the except branch is left out
ChainOfThought_NoFallback(response) == response.value

\* chain_of_thought_reasoning: json.loads(response['response']), or the fallback
ChainOfThought(response) ==
    IF response.kind = "json" THEN response.value ELSE FallbackVerdict

\* analysis.get(key, default)
Get(analysis, key, default) == IF key \in analysis.keys THEN analysis[key] ELSE default

\* the dict validate_document returns (its sources are left out)
ValidationResult(analysis) ==
    Dict({ "document_type", "compliance_status", "issues", "recommendations",
           "applicable_regulations", "confidence", "sources" },
         Get(analysis, "compliance_status", "review_required"),
         Get(analysis, "issues", << >>),
         Get(analysis, "recommendations", << >>),
         Get(analysis, "applicable_regulations", << >>),
         Get(analysis, "confidence", Rat(0, 1)))

\* every retrieved document goes into the context
ContextOf_All(relevant_docs) == [ i \in DOMAIN relevant_docs |-> relevant_docs[i].content ]

\* [doc.content for doc in relevant_docs[:5]]
ContextOf(relevant_docs) ==
    [ i \in 1 .. Len(Take(relevant_docs, ContextLimit)) |-> relevant_docs[i].content ]

CallValidate(document_type) ==
    /\ pc = "idle"
    /\ pc' = "expand"
    /\ op' = "validate_document"
    /\ validation' = [ NoValidation EXCEPT !.document_type = document_type,
                                           !.base_query = BaseQuery(document_type) ]
    /\ UNCHANGED << store, query, k, ci, results, keyword, unique, reranked, ret, caught,
                    dense_ok, scan_raised, model >>
    /\ UNCHANGED outer

\* expanded_query = self.query_expansion(base_query), then
\* self.hybrid_search(expanded_query, k=10) is entered
QueryExpansion ==
    /\ pc = "expand"
    /\ \/ /\ validation' = [ validation EXCEPT
                               !.expanded_query = ExpansionFallback(validation.base_query),
                               !.expansion_raised = TRUE ]
          /\ caught' = TRUE
       \/ \E expanded_terms \in ExpansionTerms :
            /\ validation' = [ validation EXCEPT !.expanded_query =
                                   ExpandedQuery(validation.base_query, expanded_terms) ]
            /\ caught' = FALSE
    /\ query' = validation'.expanded_query
    /\ k' = ValidateK
    /\ pc' = "embed"
    /\ UNCHANGED << store, op, ci, results, keyword, unique, reranked, ret, dense_ok,
                    scan_raised, model >>
    /\ UNCHANGED outer

\* the context is joined, chain_of_thought_reasoning runs, the result is built;
\* str.join raises on a missing text and .get on a value that is no dict
Reason ==
    /\ pc = "returned"
    /\ op = "validate_document"
    /\ IF \E i \in DOMAIN ContextOf(ret) : ContextOf(ret)[i] = NoDocument
       THEN /\ pc' = "raised"
            /\ UNCHANGED << validation, caught >>
       ELSE \E response \in Responses :
              LET analysis == ChainOfThought(response)
              IN  /\ caught' = (response.kind # "json")
                  /\ IF analysis.is_dict
                     THEN /\ pc' = "validated"
                          /\ validation' = [ validation EXCEPT
                                               !.context = ContextOf(ret),
                                               !.response = response.kind,
                                               !.analysis = analysis,
                                               !.result = ValidationResult(analysis) ]
                     ELSE /\ pc' = "raised"
                          /\ validation' = [ validation EXCEPT
                                               !.context = ContextOf(ret),
                                               !.response = response.kind,
                                               !.analysis = analysis ]
    /\ UNCHANGED << store, op, query, k, ci, results, keyword, unique, reranked, ret,
                    dense_ok, scan_raised, model >>
    /\ UNCHANGED outer

Next ==
    \/ \E doc \in KnowledgeBase, c \in LoadedCollections :
            AddDocument(doc, c)
    \/ \E q \in Queries, n \in 1 .. MaxK : Call(q, n)
    \/ EmbedQuery
    \/ DenseQuery
    \/ KeywordScan
    \/ MergeAndRerank
    \/ Finish

Spec == Init /\ [][Next]_vars

\* the document-review flow: every retrieval is part of a validate_document call
NextValidate ==
    \/ \E document_type \in DocumentTypes : CallValidate(document_type)
    \/ QueryExpansion
    \/ EmbedQuery
    \/ DenseQuery
    \/ KeywordScan
    \/ MergeAndRerank
    \/ Reason
    \/ Finish

SpecValidate == Init /\ [][NextValidate]_vars

(* ======================== properties of hybrid_search =================== *)
IdsOf(docs) == { docs[i].id : i \in DOMAIN docs }

Descending(docs) ==
    \A i, j \in DOMAIN docs : i < j => ~ScoreLess(docs[i].score, docs[j].score)

ModelScore(doc) == Rat(model.scores[doc.content], 1)

\* C1: the list hybrid_search returns has at most k documents and no two of
\* them share an id.
C1_AtMostKUniqueIds ==
    pc = "returned" =>
        /\ Len(ret) <= k
        /\ \A i, j \in DOMAIN ret : ret[i].id = ret[j].id => i = j

\* a call in which both the deduplication and the truncation removed something
C1_Witness ==
    /\ pc = "returned"
    /\ Len(results) > Len(unique)
    /\ Len(unique) > k
    /\ Len(ret) = k

\* C2 as stated: every list hybrid_search returns is in non-increasing score order.
C2_AlwaysDescending == pc = "returned" => Descending(ret)

\* C2 amended: a list hybrid_search returns from a call in which the pairwise
\* model did not raise is in non-increasing score order.
C2_DescendingUnlessModelFailed ==
    (pc = "returned" /\ ~model.failed) => Descending(ret)

\* the model answered and the sort moved a later candidate to the front
C2_Witness ==
    /\ pc = "returned"
    /\ model.called
    /\ ~model.failed
    /\ Len(ret) >= 2
    /\ ScoreLess(ret[2].score, ret[1].score)
    /\ ret[1].id # unique[1].id

\* C3: in the concatenated list every dense candidate precedes every lexical
\* one, deduplication keeps the first occurrence of each id, and an id found by
\* both stages reaches the re-ranker as its dense copy.
C3_DenseCopyWins ==
    pc = "returned" =>
        /\ \A i, j \in DOMAIN results :
              (results[i].origin = "dense" /\ results[j].origin = "lexical") => i < j
        /\ IdsOf(unique) = IdsOf(results)
        /\ \A u \in DOMAIN unique :
              \E i \in DOMAIN results :
                  /\ unique[u] = results[i]
                  /\ \A j \in 1 .. (i - 1) : results[j].id # results[i].id
        /\ \A u \in DOMAIN unique :
              (\E i \in DOMAIN results :
                  results[i].id = unique[u].id /\ results[i].origin = "dense")
                  => unique[u].origin = "dense"

\* an id found by both stages, the two copies differing in score
C3_Witness ==
    /\ pc = "returned"
    /\ \E i, j \in DOMAIN results :
          /\ results[i].id = results[j].id
          /\ results[i].origin = "dense"
          /\ results[j].origin = "lexical"
          /\ ~ScoreEq(results[i].score, results[j].score)
          /\ \E u \in DOMAIN unique : unique[u] = results[i]

\* C4: when the pairwise model succeeds, every document _rerank_results
\* returns, and so every document hybrid_search returns, has as score the
\* model's score for its content; the retrieval score is gone.
C4_ScoreIsModelScore ==
    (pc = "returned" /\ model.called /\ ~model.failed) =>
        /\ \A i \in DOMAIN reranked : reranked[i].score = ModelScore(reranked[i])
        /\ \A i \in DOMAIN ret : ret[i].score = ModelScore(ret[i])

\* a returned document whose retrieval score was another than the model's
C4_Witness ==
    /\ pc = "returned"
    /\ model.called
    /\ ~model.failed
    /\ \E i \in DOMAIN ret, u \in DOMAIN unique :
          /\ unique[u].id = ret[i].id
          /\ ~ScoreEq(unique[u].score, ret[i].score)
          /\ ScoreLess(Rat(0, 1), unique[u].score)
          /\ ScoreLess(Rat(0, 1), ret[i].score)

\* C5: when the pairwise model raises, _rerank_results raises nothing and
\* returns its input list: same documents, order, length and scores.
C5_FallbackReturnsInput ==
    model.failed => (pc = "returned" /\ reranked = unique)

\* the model raised on a list that a sort by score would have reordered
C5_Witness ==
    /\ pc = "returned"
    /\ model.failed
    /\ Len(unique) >= 2
    /\ ~Descending(unique)
    /\ reranked = unique

C7_NeverRaises == pc # "raised"

\* C9: when neither stage yields a candidate, hybrid_search returns the empty
\* list, and _rerank_results returns the empty list without calling the model.
C9_EmptyWithoutModel ==
    (pc = "returned" /\ results = << >>) =>
        /\ unique = << >>
        /\ reranked = << >>
        /\ ret = << >>
        /\ ~model.called

\* every collection is empty and answered both the query and the scan
C9_Witness ==
    /\ pc = "returned"
    /\ StoreSize(store) = 0
    /\ dense_ok
    /\ ~scan_raised
    /\ results = << >>
    /\ ret = << >>

\* the only document of the corpus, if there is exactly one
OnlyEntries ==
    { e \in Entry : \E c \in Collections : store[c] = << e >> /\ StoreSize(store) = 1 }

SharesTerm(q, content) ==
    content # NoDocument /\ Terms(q) \cap Terms(content) # {}

\* C10: when the dense query fails for every collection (and the scans do
\* not), a single-document corpus whose document shares a lower-cased token
\* with the query is returned by hybrid_search.
C10_LexicalOnlyMatchReturned ==
    (pc = "returned" /\ ~dense_ok /\ ~scan_raised) =>
        \A e \in OnlyEntries :
            SharesTerm(query, e.content) =>
                \E i \in DOMAIN ret : ret[i].id = e.id /\ ret[i].content = e.content

\* "ADGM shall" is the corpus, the query differs from its token in case only
C10_Witness ==
    /\ pc = "returned"
    /\ ~dense_ok
    /\ ~scan_raised
    /\ query = << "Shall" >>
    /\ \E e \in OnlyEntries : e.content = << "ADGM", "shall" >>
    /\ Len(ret) = 1
    /\ ret[1].origin = "lexical"

(* ====================== properties of validate_document ================= *)
\* C8: in validate_document the pairwise model is given the original query,
\* not the query with the expansion terms appended.
C8_RerankUsesOriginalQuery ==
    (op = "validate_document" /\ model.called) => model.query = validation.base_query

(* ===================== properties of hybrid_search, continued =========== *)
Min(a, b) == IF a < b THEN a ELSE b

\* C11: hybrid_search returns min(k, number of distinct ids among the dense and
\* lexical candidates) documents, whether the pairwise model succeeds or raises.
C11_CountIsMinOfKAndDistinctIds ==
    pc = "returned" => Len(ret) = Min(k, Cardinality(IdsOf(results)))

\* the model raised, an id was found twice, and fewer than k ids were found
C11_Witness ==
    /\ pc = "returned"
    /\ model.failed
    /\ Cardinality(IdsOf(results)) < Len(results)
    /\ Len(ret) = Cardinality(IdsOf(results))
    /\ Len(ret) < k

(* ===================== properties of validate_document ================== *)
\* C12: when the generative service raises in the reasoning step, or answers
\* text that is not JSON, chain_of_thought_reasoning raises nothing and returns
\* the fallback verdict: status "review_required", confidence 0.0, one issue
\* and one recommendation.
C12_FallbackVerdictOnFailure ==
    validation.response \in { "error", "not_json" } =>
        /\ pc = "validated"
        /\ validation.analysis.is_dict
        /\ { "compliance_status", "confidence", "issues", "recommendations" }
               \subseteq validation.analysis.keys
        /\ validation.analysis.compliance_status = "review_required"
        /\ validation.analysis.confidence = Rat(0, 1)
        /\ Len(validation.analysis.issues) = 1
        /\ Len(validation.analysis.recommendations) = 1

\* the service answered text that json.loads rejects, and a verdict came back
C12_Witness ==
    /\ pc = "validated"
    /\ validation.response = "not_json"
    /\ validation.context # << >>
    /\ validation.analysis.compliance_status = "review_required"

Statuses == { "compliant", "non-compliant", "review_required" }

\* d carries a status of the three and a confidence between 0.0 and 1.0
InDomain(d) ==
    /\ { "compliance_status", "confidence" } \subseteq d.keys
    /\ d.compliance_status \in Statuses
    /\ ~ScoreLess(d.confidence, Rat(0, 1))
    /\ ~ScoreLess(Rat(1, 1), d.confidence)

\* C13: every verdict chain_of_thought_reasoning returns and every result
\* validate_document returns has a compliance status in {compliant,
\* non-compliant, review_required} and a confidence in [0.0, 1.0].
C13_StatusAndConfidenceInDomain ==
    /\ (validation.response # "none" /\ validation.analysis.is_dict)
           => InDomain(validation.analysis)
    /\ pc = "validated" => InDomain(validation.result)

\* C14: whatever the generative service does in the reasoning step,
\* validate_document propagates no error: once the service has answered, the
\* call ends with a result record.
C14_ReasoningNeverPropagates ==
    validation.response # "none" =>
        /\ pc = "validated"
        /\ { "compliance_status", "issues", "recommendations", "applicable_regulations",
             "confidence" } \subseteq validation.result.keys

\* C15: when the generative service raises in query_expansion, the expansion
\* raises nothing and returns its input; validate_document goes on to retrieval
\* and reasoning, with the unexpanded query.
C15_FailedExpansionKeepsQuery ==
    validation.expansion_raised =>
        /\ pc \in { "embed", "dense", "keyword", "merge", "returned", "validated", "raised" }
        /\ validation.expanded_query = validation.base_query
        /\ query = validation.base_query
        /\ k = ValidateK
        /\ model.called => model.query = validation.base_query

\* the expansion failed, documents were retrieved and re-ranked, a result came back
C15_Witness ==
    /\ pc = "validated"
    /\ validation.expansion_raised
    /\ model.called
    /\ ret # << >>
    /\ validation.context # << >>

(* ============ process_single_document's corrections block ============== *)
\* what the corrections block leaves alone
rag ==
    << store, pc, op, query, k, ci, results, keyword, unique, reranked, ret, caught,
       dense_ok, scan_raised, model, validation >>

MaxRuns == 2

\* len(doc_text) > 100
CorrectionMinLength == 100

\* doc_text[:500]
SampleLength == 500

\* A text is written as its runs of equal characters, << [ch, n], ... >>, no two
\* neighbouring runs of the same character; " " stands for the whitespace.
Chars == { " ", "a" }
RunLengths == { 1, CorrectionMinLength, SampleLength }
Runs == [ ch : Chars, n : RunLengths ]

Texts ==
    { t \in UNION { [ 1 .. n -> Runs ] : n \in 0 .. MaxRuns } :
          \A i \in 1 .. (Len(t) - 1) : t[i].ch # t[i + 1].ch }

\* len(text)
RECURSIVE TextLen(_)
TextLen(text) == IF text = << >> THEN 0 ELSE Head(text).n + TextLen(Tail(text))

\* text[:n]
RECURSIVE Prefix(_, _)
Prefix(text, n) ==
    IF text = << >> \/ n = 0 THEN << >>
    ELSE IF Head(text).n <= n
         THEN << Head(text) >> \o Prefix(Tail(text), n - Head(text).n)
         ELSE << [ Head(text) EXCEPT !.n = n ] >>

\* text.strip()
Strip(text) ==
    LET left == IF text # << >> /\ Head(text).ch = " " THEN Tail(text) ELSE text
    IN  IF left # << >> /\ left[Len(left)].ch = " "
        THEN SubSeq(left, 1, Len(left) - 1)
        ELSE left

HighIssues == { << >>, << "Missing clause" >> }

\* the except branch strips the text as the try branch does
CorrectionsFallback_Stripped(text) == Strip(text)

\* suggest_corrections' except branch: return text
CorrectionsFallback(text) == text

\* the rag validation is over and the issues are collected
ReviewIssues(doc_text, high_issues) ==
    /\ pc = "idle"
    /\ app.op = "none"
    /\ app' = [ op |-> "process_single_document", step |-> "issues", doc_text |-> doc_text,
                high_issues |-> high_issues, sample_text |-> << >>,
                corrected_text |-> << >>, called |-> FALSE, failed |-> FALSE,
                corrections_issue |-> FALSE ]
    /\ UNCHANGED rag
    /\ UNCHANGED << db, handles, boot >>

\* if high_issues and len(doc_text) > 100: the sample is cut and
\* suggest_corrections is called; generate raises or answers some text
SuggestCorrections ==
    /\ app.op = "process_single_document"
    /\ app.step = "issues"
    /\ app.high_issues # << >>
    /\ TextLen(app.doc_text) > CorrectionMinLength
    /\ LET sample_text == Prefix(app.doc_text, SampleLength)
       IN  \/ app' = [ app EXCEPT !.step = "compare", !.sample_text = sample_text,
                                  !.called = TRUE, !.failed = TRUE,
                                  !.corrected_text = CorrectionsFallback(sample_text) ]
           \/ \E response \in Texts :
                app' = [ app EXCEPT !.step = "compare", !.sample_text = sample_text,
                                    !.called = TRUE,
                                    !.corrected_text = Strip(response) ]
    /\ UNCHANGED rag
    /\ UNCHANGED << db, handles, boot >>

\* the condition of the if is false: nothing is asked of the service
SkipCorrections ==
    /\ app.op = "process_single_document"
    /\ app.step = "issues"
    /\ ~(app.high_issues # << >> /\ TextLen(app.doc_text) > CorrectionMinLength)
    /\ app' = [ app EXCEPT !.step = "done" ]
    /\ UNCHANGED rag
    /\ UNCHANGED << db, handles, boot >>

\* if corrected_text != sample_text: issues.append({... corrections available})
CompareCorrections ==
    /\ app.op = "process_single_document"
    /\ app.step = "compare"
    /\ app' = [ app EXCEPT !.step = "done",
                           !.corrections_issue = (app.corrected_text # app.sample_text) ]
    /\ UNCHANGED rag
    /\ UNCHANGED << db, handles, boot >>

FinishReview ==
    /\ app.op = "process_single_document"
    /\ app.step = "done"
    /\ app' = NoApp
    /\ UNCHANGED rag
    /\ UNCHANGED << db, handles, boot >>

\* the block touches no collection: it is looked at over an empty store
InitCorrections == Init /\ StoreSize(store) = 0

NextCorrections ==
    \/ \E doc_text \in Texts, high_issues \in HighIssues : ReviewIssues(doc_text, high_issues)
    \/ SuggestCorrections
    \/ SkipCorrections
    \/ CompareCorrections
    \/ FinishReview

SpecCorrections == InitCorrections /\ [][NextCorrections]_vars

\* C16: when the generative service raises, suggest_corrections raises nothing
\* and returns the text it was given, and process_single_document adds the
\* "AI-generated corrections available" issue only when the text that came back
\* differs from the sample it sent.
C16_FailedCorrectionsAddNoIssue ==
    app.op = "process_single_document" =>
        /\ (app.called /\ app.failed) =>
              /\ app.step \in { "compare", "done" }
              /\ app.corrected_text = app.sample_text
              /\ ~app.corrections_issue
        /\ app.corrections_issue =>
              /\ app.called
              /\ app.corrected_text # app.sample_text

\* the service raised on a cut sample that begins with whitespace, and the
\* review ended without the issue
C16_Witness ==
    /\ app.op = "process_single_document"
    /\ app.step = "done"
    /\ app.called
    /\ app.failed
    /\ ~app.corrections_issue
    /\ app.sample_text # app.doc_text
    /\ Head(app.sample_text).ch = " "

(* ============================== __init__ =============================== *)
MaxStarts == 2

\* the calls _load_knowledge_base makes, in order: one document of each list
LoadList ==
    << [ doc |-> [ id |-> "reg_001", content |-> << "ADGM", "shall" >> ],
         collection_name |-> CollectionNames[1] ],
       [ doc |-> [ id |-> "tmpl_001", content |-> << "must" >> ],
         collection_name |-> CollectionNames[2] ],
       [ doc |-> [ id |-> "reg_001", content |-> << "must" >> ],
         collection_name |-> CollectionNames[3] ] >>

\* create_collection replaces a collection that exists
CreateRaises_Never(existing, name) == FALSE

\* create_collection raises when ./chroma_db holds a collection of that name
CreateRaises(existing, name) == name \in existing

\* the first failure ends the loading
NextToLoad_Abort(i, failed) == IF failed THEN Len(LoadList) + 1 ELSE i + 1

\* the for loops of _load_knowledge_base go on whatever _add_document met
NextToLoad(i, failed) == i + 1

\* what a process can find in ./chroma_db when it starts
InitBoot ==
    /\ db \in SUBSET Collections
    /\ store \in { s \in PersistedStores : \A c \in Collections \ db : s[c] = << >> }
    /\ pc = "init"
    /\ op = "none"
    /\ query = << >>
    /\ k = 0
    /\ ci = 1
    /\ results = << >>
    /\ keyword = << >>
    /\ unique = << >>
    /\ reranked = << >>
    /\ ret = << >>
    /\ caught = FALSE
    /\ dense_ok = FALSE
    /\ scan_raised = FALSE
    /\ model = NoModel
    /\ validation = NoValidation
    /\ handles = {}
    /\ app = NoApp
    /\ boot = [ NoBoot EXCEPT !.starts = 1 ]

\* one turn of _initialize_collections' loop: create_collection, and in the
\* bare except get_collection
InitializeCollection ==
    /\ pc = "init"
    /\ LET name == CollectionNames[ci]
       IN  /\ IF CreateRaises(db, name)
              THEN /\ caught' = TRUE
                   /\ UNCHANGED << db, store, boot >>
              ELSE /\ caught' = FALSE
                   /\ db' = db \cup { name }
                   /\ store' = [ store EXCEPT ![name] = << >> ]
                   /\ boot' = [ boot EXCEPT !.created = @ \cup { name } ]
           /\ handles' = handles \cup { name }
    /\ IF ci < Len(CollectionNames)
       THEN /\ ci' = ci + 1
            /\ pc' = "init"
       ELSE /\ ci' = 1
            /\ pc' = "load"
    /\ UNCHANGED << op, query, k, locals, app >>

\* one _add_document call of _load_knowledge_base
LoadNext ==
    /\ pc = "load"
    /\ LET doc == LoadList[ci].doc
           collection_name == LoadList[ci].collection_name
       IN  \/ /\ collection_name \in handles
              /\ ~HasId(store[collection_name], doc.id)
              /\ StoreSize(store) < MaxDocs
              /\ store' = [ store EXCEPT ![collection_name] = Append(@, doc) ]
              /\ caught' = FALSE
           \/ /\ store' = store
              /\ caught' = TRUE
    /\ boot' = [ boot EXCEPT !.load = Append(@, IF caught' THEN "failed" ELSE "added") ]
    /\ LET next == NextToLoad(ci, caught')
       IN  IF next > Len(LoadList)
           THEN /\ ci' = 0
                /\ pc' = "idle"
           ELSE /\ ci' = next
                /\ pc' = "load"
    /\ UNCHANGED << op, query, k, locals, db, handles, app >>

\* the process ends, at any point, and a new one constructs AdvancedRAG over
\* the same ./chroma_db
Restart ==
    /\ pc \in { "init", "load", "idle" }
    /\ boot.starts < MaxStarts
    /\ boot' = [ NoBoot EXCEPT !.starts = boot.starts + 1 ]
    /\ handles' = {}
    /\ ci' = 1
    /\ pc' = "init"
    /\ caught' = FALSE
    /\ UNCHANGED << store, db, op, query, k, locals, app >>

NextBoot ==
    \/ InitializeCollection
    \/ LoadNext
    \/ Restart

SpecBoot == InitBoot /\ [][NextBoot]_vars

(* ========================= properties of __init__ ====================== *)
\* C17: from any persisted state, _initialize_collections ends without error
\* with exactly the four collections open and existing, no step of it changes
\* what a collection holds, and a later start ends in the same state.
C17_InitializationIsIdempotent ==
    [][ /\ pc = "init" =>
              /\ store' = store
              /\ db \subseteq db'
              /\ pc' \in { "init", "load" }
        /\ pc' \in { "load", "idle" } =>
              /\ handles' = Collections
              /\ db' = Collections ]_vars

\* a later start has opened the four collections, creating none, over a store
\* that holds documents
C17_Witness ==
    /\ pc = "load"
    /\ ci = 1
    /\ boot.starts = 2
    /\ boot.created = {}
    /\ boot.load = << >>
    /\ handles = Collections
    /\ StoreSize(store) > 0

\* C18: a failing insertion is not propagated by _add_document, and
\* _load_knowledge_base attempts every document of its lists whatever the
\* earlier insertions met.
C18_LoadAttemptsEveryDocument ==
    /\ pc = "load" => Len(boot.load) = ci - 1
    /\ (pc = "idle" /\ boot.starts > 0) => Len(boot.load) = Len(LoadList)

\* the first insertion failed on an id the collection held, a later one succeeded
C18_Witness ==
    /\ pc = "idle"
    /\ Len(boot.load) = Len(LoadList)
    /\ boot.load[1] = "failed"
    /\ HasId(store[LoadList[1].collection_name], LoadList[1].doc.id)
    /\ boot.load[2] = "added"

Distinct(docs) == \A i, j \in DOMAIN docs : docs[i].id = docs[j].id => i = j

\* C19: whatever starts and insertions have happened, a collection holds each
\* id once, and neither its full scan nor a dense query of it yields an id twice.
C19_OneEntryPerId ==
    \A c \in Collections :
        /\ UniqueIds(store[c])
        /\ \A q \in Queries : Distinct(ScanDocuments(c, store[c], 1, << >>, Terms(q)))
        /\ \A dist \in [ DOMAIN store[c] -> Distances ] :
              Distinct(DenseDocuments(c, dist, Len(store[c])))

\* a second start offered the knowledge base again to collections that held it
C19_Witness ==
    /\ pc = "idle"
    /\ boot.starts = 2
    /\ Len(boot.load) = Len(LoadList)
    /\ \A i \in 1 .. 2 : boot.load[i] = "failed"
    /\ \A i \in 1 .. 2 : HasId(store[LoadList[i].collection_name], LoadList[i].doc.id)

(* ==================== the lexical score, on its own ==================== *)
MaxWords == 2

Words == { "ADGM", "adgm", "Shall", "shall", "must" }

\* a query or a document text of at most MaxWords words
WordTexts == UNION { [ 1 .. n -> Words ] : n \in 0 .. MaxWords }

InitScore ==
    /\ store = [ c \in Collections |-> << >> ]
    /\ pc = "idle"
    /\ op = "none"
    /\ query = << >>
    /\ k = 0
    /\ ci = 0
    /\ results = << >>
    /\ keyword = << >>
    /\ unique = << >>
    /\ reranked = << >>
    /\ ret = << >>
    /\ caught = FALSE
    /\ dense_ok = FALSE
    /\ scan_raised = FALSE
    /\ model = NoModel
    /\ validation = NoValidation
    /\ db = Collections
    /\ handles = Collections
    /\ boot = NoBoot
    /\ \E q \in WordTexts, doc \in WordTexts :
          app = [ op |-> "_keyword_search", step |-> "terms", query |-> q, doc |-> doc,
                  score |-> Rat(0, 1) ]

\* the body of _keyword_search's inner loop for one document
ScoreDocument ==
    /\ app.op = "_keyword_search"
    /\ app.step = "terms"
    /\ LET query_terms == Terms(app.query)
           doc_terms == Terms(app.doc)
       IN  app' = [ app EXCEPT !.step = "scored",
                               !.score = Jaccard(query_terms, doc_terms) ]
    /\ UNCHANGED rag
    /\ UNCHANGED << db, handles, boot >>

NextScore == ScoreDocument

SpecScore == InitScore /\ [][NextScore]_vars

\* the lower-case words, each with its spellings
Spellings ==
    [ w \in { "adgm", "shall", "must" } |->
        CASE w = "adgm" -> { "adgm", "ADGM" }
          [] w = "shall" -> { "shall", "Shall" }
          [] OTHER -> { "must" } ]

\* the lower-cased token set of a text
TokenSet(text) ==
    { w \in DOMAIN Spellings : \E i \in DOMAIN text : text[i] \in Spellings[w] }

\* C20: the lexical score of a query and a document is |Q n D| / |Q u D| over
\* their lower-cased token sets: it lies in [0, 1], is 0 when a set is empty or
\* the two are disjoint, and is 1 when the two are equal and not empty.
C20_ScoreIsJaccardOfTokenSets ==
    (app.op = "_keyword_search" /\ app.step = "scored") =>
        LET Q == TokenSet(app.query)
            D == TokenSet(app.doc)
        IN  /\ app.score.den > 0
            /\ (Q \cup D # {}) =>
                  app.score.num * Cardinality(Q \cup D)
                      = Cardinality(Q \cap D) * app.score.den
            /\ ~ScoreLess(app.score, Rat(0, 1))
            /\ ~ScoreLess(Rat(1, 1), app.score)
            /\ (Q = {} \/ D = {} \/ Q \cap D = {}) => ScoreEq(app.score, Rat(0, 1))
            /\ (Q = D /\ Q # {}) => ScoreEq(app.score, Rat(1, 1))

\* a query and a document that share one of three words, in different spellings
C20_Witness ==
    /\ app.op = "_keyword_search"
    /\ app.step = "scored"
    /\ app.query = << "ADGM", "must" >>
    /\ app.doc = << "adgm", "Shall" >>
    /\ app.score = Rat(1, 3)

(* ==================== _rerank_results, on its own ====================== *)
MaxCandidates == 3
MaxPasses == 2

\* everything but app, at rest over an empty store
Standby ==
    /\ store = [ c \in Collections |-> << >> ]
    /\ pc = "idle"
    /\ op = "none"
    /\ query = << >>
    /\ k = 0
    /\ ci = 0
    /\ results = << >>
    /\ keyword = << >>
    /\ unique = << >>
    /\ reranked = << >>
    /\ ret = << >>
    /\ caught = FALSE
    /\ dense_ok = FALSE
    /\ scan_raised = FALSE
    /\ model = NoModel
    /\ validation = NoValidation
    /\ db = Collections
    /\ handles = Collections
    /\ boot = NoBoot

\* Document objects a caller can hand to _rerank_results
Candidates ==
    { Document(e.id, e.content, Rat(1 - d, 1), "dense", CollectionNames[1]) :
        e \in KnowledgeBase, d \in Distances }

CandidateLists == UNION { [ 1 .. n -> Candidates ] : n \in 0 .. MaxCandidates }

\* the arguments, and a pairwise model that answers the same to the same pairs:
\* it raises whenever it is asked, or scores every content by one table
InitRerank ==
    /\ Standby
    /\ \E q \in Queries, documents \in CandidateLists, raises \in BOOLEAN :
          \E scores \in (IF raises THEN { NoScores } ELSE ScoreTables(documents)) :
             app = [ op |-> "_rerank_results", query |-> q, documents |-> documents,
                     raises |-> raises, scores |-> scores, passes |-> << >> ]

\* _rerank_results(query, documents)
RerankResults(documents, raises, scores) ==
    IF ~ModelIsCalled(documents) THEN documents
    ELSE IF raises THEN RerankFallback(documents)
    ELSE RerankSuccess(documents, scores)

\* _rerank_results is applied to the arguments, then to what it returned
Rerank ==
    /\ app.op = "_rerank_results"
    /\ Len(app.passes) < MaxPasses
    /\ LET documents == IF app.passes = << >> THEN app.documents
                        ELSE app.passes[Len(app.passes)]
       IN  app' = [ app EXCEPT !.passes =
                        Append(@, RerankResults(documents, app.raises, app.scores)) ]
    /\ UNCHANGED rag
    /\ UNCHANGED << db, handles, boot >>

NextRerank == Rerank

SpecRerank == InitRerank /\ [][NextRerank]_vars

\* C21: with a model that answers the same to the same pairs, _rerank_results
\* applied to its own output returns that output: same documents, same order,
\* same scores.
C21_RerankIsIdempotent ==
    app.op = "_rerank_results" =>
        \A i \in 2 .. Len(app.passes) : app.passes[i] = app.passes[i - 1]

\* a second pass over a list the first pass reordered and that holds two
\* different documents of equal score
C21_Witness ==
    /\ app.op = "_rerank_results"
    /\ ~app.raises
    /\ Len(app.passes) = 2
    /\ \E i \in DOMAIN app.documents : app.passes[1][i].id # app.documents[i].id
    /\ \E i, j \in DOMAIN app.passes[1] :
          /\ i < j
          /\ app.passes[1][i] # app.passes[1][j]
          /\ ScoreEq(app.passes[1][i].score, app.passes[1][j].score)

Orderings(n) ==
    { p \in [ 1 .. n -> 1 .. n ] : \A i, j \in 1 .. n : p[i] = p[j] => i = j }

\* C24: when the model succeeds, what _rerank_results returns is its input
\* permuted (same documents, same length), in non-increasing score order, and
\* documents of equal score keep their relative input order.
C24_RerankIsStablePermutation ==
    (app.op = "_rerank_results" /\ ~app.raises /\ app.passes # << >>) =>
        LET out == app.passes[1]
            n == Len(app.documents)
        IN  /\ Len(out) = n
            /\ Descending(out)
            /\ \E p \in Orderings(n) :
                  /\ \A i \in 1 .. n :
                        /\ out[i].id = app.documents[p[i]].id
                        /\ out[i].content = app.documents[p[i]].content
                        /\ out[i].score = Rat(app.scores[out[i].content], 1)
                  /\ \A i, j \in 1 .. n :
                        (i < j /\ ScoreEq(out[i].score, out[j].score)) => p[i] < p[j]

\* three documents: the last one moved to the front, the two of equal score
\* behind it in their input order
C24_Witness ==
    /\ app.op = "_rerank_results"
    /\ ~app.raises
    /\ Len(app.passes) >= 1
    /\ Len(app.documents) = 3
    /\ app.passes[1][1].content = app.documents[3].content
    /\ app.passes[1][2].id = app.documents[1].id
    /\ app.passes[1][3].id = app.documents[2].id
    /\ app.documents[1].id # app.documents[2].id
    /\ ScoreEq(app.passes[1][2].score, app.passes[1][3].score)
    /\ ScoreLess(app.passes[1][2].score, app.passes[1][1].score)

(* ============== ComplianceChecker.identify_process_type ================ *)
MaxTypes == 3

\* self.adgm_requirements[process]["required"]
Required ==
    [ company_incorporation |->
          { "Articles of Association", "Board Resolution", "Shareholder Resolution",
            "Incorporation Application Form", "Register of Members and Directors" },
      licensing |->
          { "License Application Form", "Business Plan", "Compliance Manual",
            "Board Resolution for License", "Financial Projections" },
      employment |->
          { "Employment Contract", "Job Description", "Salary Certificate" } ]

\* self.document_type_mappings, in the order of the dict
DocumentTypeMappings ==
    << << "articles_of_association", "Articles of Association" >>,
       << "board_resolution", "Board Resolution" >>,
       << "shareholder_resolution", "Shareholder Resolution" >>,
       << "incorporation_application", "Incorporation Application Form" >>,
       << "register", "Register of Members and Directors" >>,
       << "memorandum", "Memorandum of Association" >>,
       << "ubo_declaration", "UBO Declaration Form" >>,
       << "employment_contract", "Employment Contract" >>,
       << "license_application", "License Application Form" >>,
       << "business_plan", "Business Plan" >>,
       << "compliance_manual", "Compliance Manual" >> >>

\* document types a processor reports; none of them holds another mapping key
\* and none is part of a display name, so the two substring tests of the
\* loop come down to doc_type = key
ReportedTypes ==
    { "articles_of_association", "board_resolution", "memorandum", "employment_contract",
      "license_application", "business_plan", "general_document" }

TypeLists == UNION { [ 1 .. n -> ReportedTypes ] : n \in 0 .. MaxTypes }

\* the inner loop: the value of the first mapping that matches, if any
RECURSIVE FirstMapping(_, _)
FirstMapping(doc_type, i) ==
    IF i > Len(DocumentTypeMappings) THEN << >>
    ELSE IF DocumentTypeMappings[i][1] = doc_type THEN << DocumentTypeMappings[i][2] >>
    ELSE FirstMapping(doc_type, i + 1)

RECURSIVE StandardNames(_)
StandardNames(document_types) ==
    IF document_types = << >> THEN << >>
    ELSE FirstMapping(Head(document_types), 1) \o StandardNames(Tail(document_types))

\* sum(1 for doc in standard_names if doc in docs)
CountIn(standard_names, docs) ==
    Cardinality({ i \in DOMAIN standard_names : standard_names[i] \in docs })

IdentifyProcessType(document_types) ==
    LET standard_names == StandardNames(document_types)
        incorporation_matches == CountIn(standard_names, Required.company_incorporation)
        licensing_matches == CountIn(standard_names, Required.licensing)
        employment_matches == CountIn(standard_names, Required.employment)
    IN  IF incorporation_matches > 0 THEN "company_incorporation"
        ELSE IF licensing_matches > employment_matches THEN "licensing"
        ELSE IF employment_matches > 0 THEN "employment"
        ELSE "company_incorporation"

InitProcessType ==
    /\ Standby
    /\ \E document_types \in TypeLists :
          app = [ op |-> "identify_process_type", document_types |-> document_types,
                  returned |-> FALSE, process_type |-> "" ]

IdentifyProcess ==
    /\ app.op = "identify_process_type"
    /\ ~app.returned
    /\ app' = [ app EXCEPT !.returned = TRUE,
                           !.process_type = IdentifyProcessType(app.document_types) ]
    /\ UNCHANGED rag
    /\ UNCHANGED << db, handles, boot >>

NextProcessType == IdentifyProcess

SpecProcessType == InitProcessType /\ [][NextProcessType]_vars

\* the display name of a reported type
DisplayName ==
    [ t \in ReportedTypes |->
        CASE t = "articles_of_association" -> "Articles of Association"
          [] t = "board_resolution" -> "Board Resolution"
          [] t = "memorandum" -> "Memorandum of Association"
          [] t = "employment_contract" -> "Employment Contract"
          [] t = "license_application" -> "License Application Form"
          [] t = "business_plan" -> "Business Plan"
          [] OTHER -> "" ]

\* how many of the given types are required documents of a process
Matched(process, document_types) ==
    Cardinality({ i \in DOMAIN document_types :
                      DisplayName[document_types[i]] \in Required[process] })

\* C30: identify_process_type returns the process whose required documents are
\* matched by the largest number of the given types, and company_incorporation
\* when none is matched.
C30_ProcessWithMostMatches ==
    (app.op = "identify_process_type" /\ app.returned) =>
        /\ app.process_type \in DOMAIN Required
        /\ \A p \in DOMAIN Required :
              Matched(p, app.document_types) <= Matched(app.process_type, app.document_types)
        /\ (\A p \in DOMAIN Required : Matched(p, app.document_types) = 0)
              => app.process_type = "company_incorporation"

(* ======================== process_documents ============================ *)
MaxFiles == 2

FileNames == { "a.docx", "b.docx" }

FileLists == UNION { [ 1 .. n -> FileNames ] : n \in 0 .. MaxFiles }

\* how the try block of process_single_document ends for one file: load_document
\* returns False, a later statement raises, or the result is built
Outcomes ==
    { [ kind |-> "load_failed", doc_type |-> "" ] }
        \cup [ kind : { "raised", "reviewed" }, doc_type : ReportedTypes ]

\* the exception leaves process_single_document
ProcessSingleDocument_NoExcept(file_name, outcome) ==
    [ raised |-> outcome.kind # "reviewed",
      result |-> [ file_name |-> file_name, document_type |-> outcome.doc_type ] ]

\* process_single_document: the result dict, or the error dict of its except
\* branch (of the keys, file_name and document_type are kept)
ProcessSingleDocument(file_name, outcome) ==
    [ raised |-> FALSE,
      result |-> IF outcome.kind = "reviewed"
                 THEN [ file_name |-> file_name, document_type |-> outcome.doc_type ]
                 ELSE [ file_name |-> file_name, document_type |-> "error" ] ]

InitDocuments ==
    /\ Standby
    /\ \E files \in FileLists :
          app = [ op |-> "process_documents", step |-> "loop", files |-> files,
                  results |-> << >>, doc_names |-> << >>, document_types |-> << >>,
                  outcomes |-> << >>, process_type |-> "" ]

\* one turn of "for file in files"; self.document_types.append(doc_type) has
\* run unless load_document failed
ProcessNextFile ==
    /\ app.op = "process_documents"
    /\ app.step = "loop"
    /\ Len(app.results) < Len(app.files)
    /\ \E outcome \in Outcomes :
          LET file_name == app.files[Len(app.results) + 1]
              single == ProcessSingleDocument(file_name, outcome)
              document_types == IF outcome.kind = "load_failed" THEN app.document_types
                                ELSE Append(app.document_types, outcome.doc_type)
          IN  IF single.raised
              THEN app' = [ app EXCEPT !.step = "raised",
                                       !.doc_names = Append(@, file_name),
                                       !.document_types = document_types,
                                       !.outcomes = Append(@, outcome.kind) ]
              ELSE app' = [ app EXCEPT !.doc_names = Append(@, file_name),
                                       !.results = Append(@, single.result),
                                       !.document_types = document_types,
                                       !.outcomes = Append(@, outcome.kind) ]
    /\ UNCHANGED rag
    /\ UNCHANGED << db, handles, boot >>

\* the early return on no file, or what follows the loop: the process type is
\* identified, the report is compiled, results are returned
CompileReport ==
    /\ app.op = "process_documents"
    /\ app.step = "loop"
    /\ Len(app.results) = Len(app.files)
    /\ app' = [ app EXCEPT !.step = "returned",
                           !.process_type = IF app.files = << >> THEN ""
                                            ELSE IdentifyProcessType(app.document_types) ]
    /\ UNCHANGED rag
    /\ UNCHANGED << db, handles, boot >>

NextDocuments ==
    \/ ProcessNextFile
    \/ CompileReport

SpecDocuments == InitDocuments /\ [][NextDocuments]_vars

\* C22: process_documents raises nothing when a document fails and returns one
\* result per uploaded file, in upload order; a failing document yields an
\* error result and the files after it are still processed.
C22_OneResultPerFileInOrder ==
    app.op = "process_documents" =>
        /\ app.step # "raised"
        /\ Len(app.results) = Len(app.outcomes)
        /\ \A i \in DOMAIN app.results :
              /\ app.results[i].file_name = app.files[i]
              /\ app.outcomes[i] # "reviewed" => app.results[i].document_type = "error"
        /\ app.step = "returned" => Len(app.results) = Len(app.files)

\* two files of different names: the first failed, the second was reviewed
C22_Witness ==
    /\ app.op = "process_documents"
    /\ app.step = "returned"
    /\ Len(app.files) = 2
    /\ app.files[1] # app.files[2]
    /\ app.outcomes = << "raised", "reviewed" >>
    /\ app.results[1].document_type = "error"
    /\ app.results[2].document_type = "employment_contract"
    /\ app.process_type = "employment"

(* ===================== _keyword_search, on its own ===================== *)
\* _keyword_search(query, k) is entered over what ./chroma_db holds
InitKeyword ==
    /\ store \in PersistedStores
    /\ pc = "keyword"
    /\ op = "_keyword_search"
    /\ query \in Queries
    /\ k \in 1 .. MaxK
    /\ ci = 1
    /\ results = << >>
    /\ keyword = << >>
    /\ unique = << >>
    /\ reranked = << >>
    /\ ret = << >>
    /\ caught = FALSE
    /\ dense_ok = FALSE
    /\ scan_raised = FALSE
    /\ model = NoModel
    /\ validation = NoValidation
    /\ db = Collections
    /\ handles = Collections
    /\ app = NoApp
    /\ boot = NoBoot

\* the return statement; keyword keeps the list the loops built
KeywordReturn ==
    /\ pc = "merge"
    /\ op = "_keyword_search"
    /\ ret' = KeywordResults(keyword, k)
    /\ pc' = "returned"
    /\ UNCHANGED << store, op, query, k, ci, results, keyword, unique, reranked, caught,
                    dense_ok, scan_raised, model, validation >>
    /\ UNCHANGED outer

NextKeyword ==
    \/ KeywordScan
    \/ KeywordReturn

SpecKeyword == InitKeyword /\ [][NextKeyword]_vars

\* C23: _keyword_search returns at most k of the documents its scan found over
\* all collections together, each with a score above 0, in non-increasing score
\* order, documents of equal score in scan order, and no found document that
\* is left out scores strictly higher than a returned one.
C23_KeywordTopK ==
    (pc = "returned" /\ op = "_keyword_search") =>
        /\ Len(ret) <= k
        /\ Len(ret) = Min(k, Len(keyword))
        /\ \A i \in DOMAIN ret : ScoreLess(Rat(0, 1), ret[i].score)
        /\ Descending(ret)
        /\ \A i, j \in DOMAIN ret, a, b \in DOMAIN keyword :
              (i < j /\ ScoreEq(ret[i].score, ret[j].score)
                     /\ keyword[a] = ret[i] /\ keyword[b] = ret[j]) => a < b
        /\ \A i \in DOMAIN ret : \E a \in DOMAIN keyword : keyword[a] = ret[i]
        /\ \A a \in DOMAIN keyword :
              (\A i \in DOMAIN ret : ret[i] # keyword[a])
                  => \A i \in DOMAIN ret : ~ScoreLess(ret[i].score, keyword[a].score)

\* two collections were scanned; the better document, found second, is the one
\* of k = 1 that is returned
C23_Witness ==
    /\ pc = "returned"
    /\ op = "_keyword_search"
    /\ k = 1
    /\ Len(keyword) = 2
    /\ keyword[1].coll # keyword[2].coll
    /\ ScoreLess(keyword[1].score, keyword[2].score)
    /\ ret = << keyword[2] >>

(* ============ hybrid_search over a store of six documents ============== *)
\* a persisted store with more documents than collections, every id its own
Shelves ==
    [ c \in Collections |->
        CASE c = CollectionNames[1] ->
                 << [ id |-> "reg_002", content |-> << "must" >> ],
                    [ id |-> "reg_003", content |-> << "ADGM", "shall" >> ],
                    [ id |-> "reg_004", content |-> << "ADGM", "shall" >> ] >>
          [] c = CollectionNames[2] -> << [ id |-> "tmpl_001", content |-> << "must" >> ] >>
          [] c = CollectionNames[3] -> << [ id |-> "rule_001", content |-> << "must" >> ] >>
          [] OTHER -> << [ id |-> "prec_001", content |-> << "must" >> ] >> ]

\* the store as the first collection grew
CorpusStores ==
    { [ Shelves EXCEPT ![CollectionNames[1]] = SubSeq(@, 1, n) ] : n \in 0 .. 3 }

InitCorpus ==
    /\ store \in CorpusStores
    /\ pc = "idle"
    /\ op = "none"
    /\ query = << >>
    /\ k = 0
    /\ ci = 0
    /\ results = << >>
    /\ keyword = << >>
    /\ unique = << >>
    /\ reranked = << >>
    /\ ret = << >>
    /\ caught = FALSE
    /\ dense_ok = FALSE
    /\ scan_raised = FALSE
    /\ model = NoModel
    /\ validation = NoValidation
    /\ db = Collections
    /\ handles = Collections
    /\ app = NoApp
    /\ boot = NoBoot

NextCorpus ==
    \/ \E q \in Queries, n \in 1 .. MaxK : Call(q, n)
    \/ EmbedQuery
    \/ DenseQuery
    \/ KeywordScan
    \/ MergeAndRerank
    \/ Finish

SpecCorpus == InitCorpus /\ [][NextCorpus]_vars

\* C25 as stated: the re-ranking model is handed at most k times the number of
\* collections candidates.
C25_AtMostKPerCollection ==
    pc = "returned" => Len(unique) <= k * Len(CollectionNames)

\* C25 amended: the re-ranking model is handed at most k candidates of each
\* collection's dense query and k more of the lexical stage, whatever the
\* store holds.
C25_AtMostKPerCollectionPlusK ==
    pc = "returned" =>
        /\ Len(unique) <= k * (Len(CollectionNames) + 1)
        /\ \A c \in Collections :
              Cardinality({ i \in DOMAIN results :
                  results[i].origin = "dense" /\ results[i].coll = c }) <= k
        /\ Cardinality({ i \in DOMAIN results : results[i].origin = "lexical" }) <= k

\* k = 1 over six documents: one candidate of each collection's dense query and
\* a fifth of the lexical stage reach the model
C25_Witness ==
    /\ pc = "returned"
    /\ k = 1
    /\ model.called
    /\ StoreSize(store) = 6
    /\ Len(unique) = Len(CollectionNames) + 1

\* C26: no step of hybrid_search, its lexical stage and its re-ranking included,
\* changes what a collection holds; the scores live on the Document objects of
\* the call.
C26_RetrievalLeavesStoreUnchanged ==
    [][ (pc # "idle" \/ pc' # "idle") => store' = store ]_vars

\* the model's scores replaced the retrieval scores of a returned list, over
\* the full store
C26_Witness ==
    /\ pc = "returned"
    /\ model.called
    /\ ~model.failed
    /\ store = Shelves
    /\ Len(reranked) = Len(unique)
    /\ \E i \in DOMAIN unique, j \in DOMAIN reranked :
          /\ unique[i].id = reranked[j].id
          /\ unique[i].score # reranked[j].score

(* ========= validate_document over the store of six documents =========== *)
InitReview == InitCorpus /\ store = Shelves

SpecReview == InitReview /\ [][NextValidate]_vars

\* the steps of one validate_document call, each with the steps that may follow
StepOrder ==
    { << "idle", "expand" >>, << "expand", "embed" >>, << "embed", "dense" >>,
      << "embed", "raised" >>, << "dense", "dense" >>, << "dense", "keyword" >>,
      << "keyword", "keyword" >>, << "keyword", "merge" >>, << "merge", "returned" >>,
      << "returned", "validated" >>, << "returned", "raised" >> }

\* C27: a validate_document call goes through query expansion, then one
\* hybrid_search (dense, lexical, deduplicate and re-rank, truncate), then one
\* reasoning call, which starts only when retrieval has returned and is given
\* the contents of the first min(5, n) retrieved documents in ranked order.
C27_StepsInOrder ==
    [][ op' = "validate_document" =>
          /\ << pc, pc' >> \in StepOrder
          /\ pc' = "embed" => validation'.expanded_query # << >>
          /\ validation'.response # validation.response =>
                /\ pc = "returned"
                /\ validation.response = "none"
                /\ Len(validation'.context) = Min(ContextLimit, Len(ret))
                /\ \A i \in DOMAIN validation'.context :
                      validation'.context[i] = ret[i].content
          /\ pc' = "validated" => validation'.response # "none" ]_vars

\* six documents were retrieved and re-ranked, five went to the one reasoning call
C27_Witness ==
    /\ pc = "validated"
    /\ model.called
    /\ ~model.failed
    /\ Len(ret) = 6
    /\ Len(validation.context) = ContextLimit
    /\ validation.response = "json"
    /\ ret[6].content # ret[1].content

(* ================= two hybrid_search calls at once ===================== *)
Threads == 1 .. 2

\* the locals of every call live on one object
FrameOf_Shared(t) == 1

\* results, keyword_results, unique_results and reranked_results are locals:
\* each call has a frame of its own
FrameOf(t) == t

ShelfContents ==
    UNION { { Shelves[c][i].content : i \in DOMAIN Shelves[c] } : c \in Collections }

NoFrame ==
    [ results |-> << >>, keyword |-> << >>, unique |-> << >>, reranked |-> << >>,
      ret |-> << >> ]

\* an embedder, a store and a pairwise model that answer the same to the same
\* question: a distance and a model score for every content
Environments ==
    [ dist : [ ShelfContents -> Distances ], scores : [ ShelfContents -> ModelScores ] ]

\* the distances collection.query works with
DistancesIn(collection_name, env) ==
    [ i \in DOMAIN store[collection_name] |-> env.dist[store[collection_name][i].content] ]

InitConcurrent ==
    /\ store = Shelves
    /\ pc = "idle"
    /\ op = "none"
    /\ query = << >>
    /\ k = 0
    /\ ci = 0
    /\ results = << >>
    /\ keyword = << >>
    /\ unique = << >>
    /\ reranked = << >>
    /\ ret = << >>
    /\ caught = FALSE
    /\ dense_ok = FALSE
    /\ scan_raised = FALSE
    /\ model = NoModel
    /\ validation = NoValidation
    /\ db = Collections
    /\ handles = Collections
    /\ boot = NoBoot
    /\ \E env \in Environments, q \in [ Threads -> Queries ], n \in [ Threads -> 1 .. MaxK ] :
          app = [ op |-> "concurrent", env |-> env,
                  threads |-> [ t \in Threads |->
                                  [ pc |-> "call", query |-> q[t], k |-> n[t], ci |-> 0,
                                    returned |-> << >> ] ],
                  frames |-> [ t \in Threads |-> NoFrame ] ]

\* thread t enters hybrid_search: results = [], the query is embedded
EnterSearch(t) ==
    /\ app.op = "concurrent"
    /\ app.threads[t].pc = "call"
    /\ app' = [ app EXCEPT !.threads[t].pc = "dense",
                           !.threads[t].ci = 1,
                           !.frames[FrameOf(t)].results = << >> ]
    /\ UNCHANGED rag
    /\ UNCHANGED << db, handles, boot >>

\* one turn of thread t's dense loop; after the last one _keyword_search is
\* entered with results = []
DenseTurn(t) ==
    /\ app.op = "concurrent"
    /\ app.threads[t].pc = "dense"
    /\ LET th == app.threads[t]
           collection_name == CollectionNames[th.ci]
           found == DenseDocuments(collection_name, DistancesIn(collection_name, app.env),
                                   th.k)
           last == th.ci = Len(CollectionNames)
       IN  app' = [ app EXCEPT !.threads[t].pc = IF last THEN "keyword" ELSE "dense",
                               !.threads[t].ci = IF last THEN 1 ELSE th.ci + 1,
                               !.frames[FrameOf(t)].results = @ \o found,
                               !.frames[FrameOf(t)].keyword = IF last THEN << >> ELSE @ ]
    /\ UNCHANGED rag
    /\ UNCHANGED << db, handles, boot >>

\* one turn of thread t's loop in _keyword_search
KeywordTurn(t) ==
    /\ app.op = "concurrent"
    /\ app.threads[t].pc = "keyword"
    /\ LET th == app.threads[t]
           collection_name == CollectionNames[th.ci]
           last == th.ci = Len(CollectionNames)
       IN  app' = [ app EXCEPT !.threads[t].pc = IF last THEN "merge" ELSE "keyword",
                               !.threads[t].ci = IF last THEN 0 ELSE th.ci + 1,
                               !.frames[FrameOf(t)].keyword =
                                   ScanDocuments(collection_name, store[collection_name], 1,
                                                 @, Terms(th.query)) ]
    /\ UNCHANGED rag
    /\ UNCHANGED << db, handles, boot >>

\* thread t's _keyword_search returns, then extend, deduplicate, re-rank, [:k]
MergeTurn(t) ==
    /\ app.op = "concurrent"
    /\ app.threads[t].pc = "merge"
    /\ LET th == app.threads[t]
           fr == app.frames[FrameOf(t)]
           keyword_results == KeywordResults(fr.keyword, th.k)
           all == fr.results \o keyword_results
           unique_results == DeduplicateResults(all)
           reranked_results == RerankResults(unique_results, FALSE, app.env.scores)
       IN  app' = [ app EXCEPT !.threads[t].pc = "returned",
                               !.threads[t].returned = Take(reranked_results, th.k),
                               !.frames[FrameOf(t)] =
                                   [ results |-> all, keyword |-> keyword_results,
                                     unique |-> unique_results,
                                     reranked |-> reranked_results,
                                     ret |-> Take(reranked_results, th.k) ] ]
    /\ UNCHANGED rag
    /\ UNCHANGED << db, handles, boot >>

NextConcurrent ==
    \/ \E t \in Threads : EnterSearch(t)
    \/ \E t \in Threads : DenseTurn(t)
    \/ \E t \in Threads : KeywordTurn(t)
    \/ \E t \in Threads : MergeTurn(t)

SpecConcurrent == InitConcurrent /\ [][NextConcurrent]_vars

\* what one call returns when no other call runs
RECURSIVE DenseStage(_, _, _)
DenseStage(i, n, env) ==
    IF i = 0 THEN << >>
    ELSE DenseStage(i - 1, n, env)
             \o DenseDocuments(CollectionNames[i], DistancesIn(CollectionNames[i], env), n)

RECURSIVE LexicalStage(_, _)
LexicalStage(i, query_terms) ==
    IF i = 0 THEN << >>
    ELSE ScanDocuments(CollectionNames[i], store[CollectionNames[i]], 1,
                       LexicalStage(i - 1, query_terms), query_terms)

RunAlone(q, n, env) ==
    LET dense == DenseStage(Len(CollectionNames), n, env)
        lexical == KeywordResults(LexicalStage(Len(CollectionNames), Terms(q)), n)
    IN  Take(RerankResults(DeduplicateResults(dense \o lexical), FALSE, env.scores), n)

\* C28: two hybrid_search calls on one AdvancedRAG, interleaved at any step and
\* with no insertion going on, each return the list the call returns when it
\* runs alone.
C28_ConcurrentCallsAreIndependent ==
    app.op = "concurrent" =>
        \A t \in Threads :
            app.threads[t].pc = "returned" =>
                app.threads[t].returned
                    = RunAlone(app.threads[t].query, app.threads[t].k, app.env)

\* both calls have returned, with different queries, different lists
C28_Witness ==
    /\ app.op = "concurrent"
    /\ \A t \in Threads : app.threads[t].pc = "returned"
    /\ app.threads[1].query # app.threads[2].query
    /\ app.threads[1].returned # << >>
    /\ app.threads[2].returned # << >>
    /\ app.threads[1].returned[1].id # app.threads[2].returned[1].id

(* ======== hybrid_search over two collections that share an id ========== *)
\* the first collection holds reg_001 with one text, the third with another
TwinStores ==
    { [ c \in Collections |->
          IF c = CollectionNames[1] THEN first
          ELSE IF c = CollectionNames[3]
               THEN << [ id |-> "reg_001", content |-> << "must" >> ] >>
               ELSE << >> ] :
        first \in { << [ id |-> "reg_001", content |-> << "ADGM", "shall" >> ] >>,
                    << [ id |-> "tmpl_001", content |-> << "must" >> ],
                       [ id |-> "reg_001", content |-> << "ADGM", "shall" >> ] >>,
                    << [ id |-> "reg_001", content |-> << "ADGM", "shall" >> ],
                       [ id |-> "tmpl_001", content |-> << "must" >> ] >> } }

InitTwins ==
    /\ store \in TwinStores
    /\ pc = "idle"
    /\ op = "none"
    /\ query = << >>
    /\ k = 0
    /\ ci = 0
    /\ results = << >>
    /\ keyword = << >>
    /\ unique = << >>
    /\ reranked = << >>
    /\ ret = << >>
    /\ caught = FALSE
    /\ dense_ok = FALSE
    /\ scan_raised = FALSE
    /\ model = NoModel
    /\ validation = NoValidation
    /\ db = Collections
    /\ handles = Collections
    /\ app = NoApp
    /\ boot = NoBoot

SpecTwins == InitTwins /\ [][NextCorpus]_vars

\* position of a collection in the dense stage's loop
CollectionIndex(c) == CHOOSE i \in DOMAIN CollectionNames : CollectionNames[i] = c

\* ids held, with different texts, by two collections
TwinIds ==
    { id \in { "reg_001", "tmpl_001" } :
        \E a, b \in Collections :
            /\ a # b
            /\ \E i \in DOMAIN store[a], j \in DOMAIN store[b] :
                  /\ store[a][i].id = id
                  /\ store[b][j].id = id
                  /\ store[a][i].content # store[b][j].content }

\* the collection, first in the dense stage's order, that holds the id
FirstHolder(id) ==
    CHOOSE c \in Collections :
        /\ HasId(store[c], id)
        /\ \A d \in Collections :
              HasId(store[d], id) => CollectionIndex(c) <= CollectionIndex(d)

CopiesIn(docs, id) == { i \in DOMAIN docs : docs[i].id = id }

\* C29 as stated: of an id held with different texts by two collections, at
\* most one copy reaches the re-ranker and the result, and it is the copy of
\* the collection that the dense stage meets first.
C29_FirstCollectionCopyWins ==
    pc = "returned" =>
        \A id \in TwinIds :
            /\ Cardinality(CopiesIn(unique, id)) <= 1
            /\ Cardinality(CopiesIn(ret, id)) <= 1
            /\ \A u \in CopiesIn(unique, id) : unique[u].coll = FirstHolder(id)

\* C29 amended: at most one copy reaches the re-ranker and the result, and it
\* is the first copy in the candidate list: the copy of the first collection
\* whose dense query returned the id, or else the first lexical copy.
C29_FirstCandidateCopyWins ==
    pc = "returned" =>
        \A id \in TwinIds :
            /\ Cardinality(CopiesIn(unique, id)) <= 1
            /\ Cardinality(CopiesIn(ret, id)) <= 1
            /\ CopiesIn(results, id) # {} => CopiesIn(unique, id) # {}
            /\ \A u \in CopiesIn(unique, id) :
                  LET dense == { i \in CopiesIn(results, id) : results[i].origin = "dense" }
                  IN  /\ unique[u].content \in { results[i].content : i \in CopiesIn(results, id) }
                      /\ dense # {} =>
                            /\ unique[u].origin = "dense"
                            /\ \A i \in dense : CollectionIndex(unique[u].coll)
                                                   <= CollectionIndex(results[i].coll)
                      /\ dense = {} =>
                            /\ unique[u].origin = "lexical"
                            /\ \A i \in CopiesIn(results, id) :
                                  ~ScoreLess(unique[u].score, results[i].score)

\* no query failed; the first collection's nearest document was another one, so
\* the third collection's copy is the one that was ranked
C29_Witness ==
    /\ pc = "returned"
    /\ k = 1
    /\ ~scan_raised
    /\ Cardinality({ results[i].coll : i \in { j \in DOMAIN results :
                                                  results[j].origin = "dense" } }) = 2
    /\ \E u \in CopiesIn(unique, "reg_001") :
          /\ unique[u].coll = CollectionNames[3]
          /\ FirstHolder("reg_001") = CollectionNames[1]
          /\ \E i \in DOMAIN reranked : reranked[i].id = "reg_001"

====
